---- MODULE Spec2Model ----
(***************************************************************************)
(* pystrat (src/main.py): global hotkeys, the UI queue bridge and the      *)
(* synthetic key sequences of StratagemApp, as a state machine.            *)
(*                                                                         *)
(* Threads of the program:                                                 *)
(*   - the UI thread (Tk mainloop): StratagemApp.__init__, the handlers,   *)
(*     process_ui_queue, on_close;                                         *)
(*   - the loop thread(s) of HotkeyManager._message_loop;                  *)
(*   - one worker thread per activation (send_sequence);                   *)
(*   - icon render threads (render_icon_async), which only push to the     *)
(*     UI queue.                                                           *)
(* The operating system is the environment: the hotkey table, the thread   *)
(* message queues, the keys the user presses, the timeouts.  Time is not   *)
(* modelled: a timed wait may time out at any moment.                      *)
(***************************************************************************)
EXTENDS Integers, Sequences, FiniteSets, TLC

\* ------------------------------------------------------------- bounds
\* Number of keybind entries (the program's table has 9).
NumSlots == 2
\* Loop threads a HotkeyManager may be asked to start (start() calls).
MaxStarts == 2
\* Physical key presses of the user that the OS sees.
MaxKeyPresses == 2
\* Icon render threads that push a callback.
MaxIconJobs == 1
\* Presses of a numpad key while the app's own window has the focus.
MaxLocalKeys == 1
\* stop() calls a client of HotkeyManager makes.
MaxStops == 2
\* Changes of a setting (input keys, key delay) by the user.
MaxConfigChanges == 1
\* Tokens in the sequence of a catalog entry read from stratagems.json.
MaxSeqLen == 2

\* ---------------------------------------------------------- constants
BASE_ID == 1000
WM_HOTKEY == 786
WM_QUIT == 18
KEYEVENTF_SCANCODE == 8
KEYEVENTF_KEYUP == 2
VK_CONTROL == 17
VK_UP == 38
VK_LEFT == 37
VK_DOWN == 40
VK_RIGHT == 39
\* MapVirtualKeyW(VK_CONTROL, 0): the scan code of the control key.
SCAN_CONTROL == 29
PRESS_HOLD_MS == 20
DEFAULT_KEY_DELAY_MS == 40

None == 0

\* desired_keybinds: key_code as its hexadecimal digits ("0x67" is <<6, 7>>).
desired_keybinds ==
    << [key_code |-> <<6, 7>>, letter |-> "NumPad7"],
       [key_code |-> <<6, 8>>, letter |-> "NumPad8"],
       [key_code |-> <<6, 9>>, letter |-> "NumPad9"],
       [key_code |-> <<6, 4>>, letter |-> "NumPad4"],
       [key_code |-> <<6, 5>>, letter |-> "NumPad5"],
       [key_code |-> <<6, 6>>, letter |-> "NumPad6"],
       [key_code |-> <<6, 1>>, letter |-> "NumPad1"],
       [key_code |-> <<6, 2>>, letter |-> "NumPad2"],
       [key_code |-> <<6, 3>>, letter |-> "NumPad3"] >>

\* parse_key_code: int(code, 16) on the digits after "0x".
RECURSIVE parse_key_code(_)
parse_key_code(code) ==
    IF code = << >> THEN 0
    ELSE 16 * parse_key_code(SubSeq(code, 1, Len(code) - 1)) + code[Len(code)]

Slots == 0 .. (NumSlots - 1)
Threads == 1 .. MaxStarts
\* The thread that calls start() and stop(): the UI thread, or a client.
Caller == 0
AllThreads == {Caller} \cup Threads

\* The app's keybind table: the first NumSlots entries of desired_keybinds.
AppKeybinds == SubSeq(desired_keybinds, 1, NumSlots)

\* register_hotkeys, lines 800-805: hotkey_id = 1000 + idx, in table order.
HotkeyIdOf(idx) == BASE_ID + idx
\* A table whose ids count the slots from the far end.
BuildHotkeyMap_Reversed(kb) ==
    [k \in 1 .. Len(kb) |-> <<HotkeyIdOf(Len(kb) - k), parse_key_code(kb[k].key_code)>>]
BuildHotkeyMap(kb) ==
    [k \in 1 .. Len(kb) |-> <<HotkeyIdOf(k - 1), parse_key_code(kb[k].key_code)>>]
BuildIdToIndex(kb) ==
    [k \in 1 .. Len(kb) |-> <<HotkeyIdOf(k - 1), k - 1>>]

\* dict helpers: a dict is the sequence of its (key, value) pairs.
DictKeys(d) == [k \in 1 .. Len(d) |-> d[k][1]]
DictHas(d, key) == \E k \in 1 .. Len(d) : d[k][1] = key
DictGet(d, key) == d[CHOOSE k \in 1 .. Len(d) : d[k][1] = key][2]
SeqSet(s) == {s[k] : k \in 1 .. Len(s)}

VARIABLES
    \* --- platform
    os_nt,            \* os.name == "nt"
    \* --- HotkeyManager fields
    hotkeys,          \* StratagemApp.hotkeys is not None
    hotkey_map,       \* HotkeyManager.hotkey_map
    thread,           \* HotkeyManager.thread (None or a loop thread)
    thread_id,        \* HotkeyManager.thread_id (None or an OS thread id)
    ready,            \* HotkeyManager.ready (threading.Event)
    errors,           \* HotkeyManager.errors (the ids in the messages)
    stops,            \* stop() calls so far, and whether one found every
                      \* loop thread of a started manager ended
    \* --- loop threads
    lpc,              \* position of each loop thread in _message_loop
    l_iter,           \* what the for loop of each thread still iterates
    \* --- operating system
    has_queue,        \* threads with a message queue
    msgq,             \* posted messages of each thread
    os_hotkeys,       \* hotkey table: records [owner, id, vk]
    taken,            \* key codes claimed by another process
    os_calls,         \* the RegisterHotKey / UnregisterHotKey calls of each thread
    presses,          \* physical key presses seen so far
    \* --- StratagemApp
    hotkey_id_to_index,
    ui_queue,         \* queue.Queue of callbacks
    n_pushed,         \* callbacks put so far
    ran,              \* callbacks dequeued, in order, with the outcome
    status_var,
    root_exists,      \* root.winfo_exists()
    poll_scheduled,   \* a root.after(30, process_ui_queue) is pending
    close_protocol,   \* WM_DELETE_WINDOW is bound to on_close
    ui_pc,            \* position of the UI thread
    equipped,
    stratagem_names,  \* the names the picker offers
    stratagems,       \* self.stratagem_map: the sequence of each catalog name
    input_keys,
    key_delay_ms,
    act_log,          \* activate_stratagem calls: [index, by, via]
    icon_jobs,        \* icon render threads started so far
    config_changes,   \* setting changes made so far
    \* --- synthesis workers
    workers,          \* one record per send_sequence thread
    input_log         \* SendInput calls, in the order the OS got them

mgr_vars == <<hotkeys, hotkey_map, thread, thread_id, ready, errors, stops>>
loop_vars == <<lpc, l_iter>>
os_vars == <<has_queue, msgq, os_hotkeys, taken, os_calls, presses>>
bridge_vars == <<ui_queue, n_pushed, ran>>
app_vars == <<hotkey_id_to_index, status_var, root_exists, poll_scheduled,
              close_protocol, equipped, stratagem_names, stratagems, input_keys, key_delay_ms, act_log,
              icon_jobs, config_changes>>
synth_vars == <<workers, input_log>>
vars == <<os_nt, mgr_vars, loop_vars, os_vars, bridge_vars, app_vars, ui_pc,
          synth_vars>>

\* -------------------------------------------------- operating system
\* RegisterHotKey(None, id, MOD_NOREPEAT, vk) succeeds unless the key is
\* already a hotkey, of another process or of this one.  (Only what the
\* documented API promises is modelled: a registration lasts until its
\* owner calls UnregisterHotKey.)
RegisterHotKeyOk(vk) ==
    /\ vk \notin taken
    /\ ~ \E h \in os_hotkeys : h.vk = vk

\* PostThreadMessageW(tid, message, 0, 0) fails, without raising, when the
\* thread has no message queue yet or has ended.
CanPost(tid) == tid \in has_queue /\ lpc[tid] # "done"

PostThreadMessageW(tid, m) ==
    IF CanPost(tid)
    THEN msgq' = [msgq EXCEPT ![tid] = Append(@, m)]
    ELSE UNCHANGED msgq

\* The keys whose press the model lets the user make: those of the table.
PressableKeys == {parse_key_code(AppKeybinds[k].key_code) : k \in 1 .. Len(AppKeybinds)}

\* The user presses a key while another application has the focus: the OS
\* posts WM_HOTKEY to the owner of a hotkey on that key, if there is one.
KeyPressed(vk) ==
    /\ Len(presses) < MaxKeyPresses
    /\ IF \E h \in os_hotkeys : h.vk = vk
       THEN LET h == CHOOSE x \in os_hotkeys : x.vk = vk
            IN  /\ msgq' = [msgq EXCEPT ![h.owner] =
                               Append(@, [message |-> WM_HOTKEY, wParam |-> h.id])]
                /\ presses' = Append(presses, [vk |-> vk, posted |-> TRUE])
       ELSE /\ UNCHANGED msgq
            /\ presses' = Append(presses, [vk |-> vk, posted |-> FALSE])
    /\ UNCHANGED <<os_nt, mgr_vars, loop_vars, has_queue, os_hotkeys, taken,
                   os_calls, bridge_vars, app_vars, ui_pc, synth_vars>>

\* ------------------------------------------------- cross-thread bridge
\* A callback handed to run_in_ui.  n numbers the puts, by is the thread
\* that put it and, for a callback of an icon thread, in_drain says whether
\* a drain was running then.
Callback(kind, index, fails, by) ==
    [n |-> n_pushed + 1, kind |-> kind, index |-> index, fails |-> fails, by |-> by,
     in_drain |-> by = "icon" /\ ui_pc = "drain"]

run_in_ui(func) ==
    /\ ui_queue' = Append(ui_queue, func)
    /\ n_pushed' = n_pushed + 1

\* A sink that activates on the spot, on the thread that called it.
on_hotkey_fired_Direct(hotkey_id, by) ==
    IF ~ DictHas(hotkey_id_to_index, hotkey_id)
    THEN UNCHANGED <<bridge_vars, act_log, workers, status_var>>
    ELSE LET index == DictGet(hotkey_id_to_index, hotkey_id)
             known == equipped[index + 1] \in {"Resupply", "Flare"}
         IN  /\ act_log' = Append(act_log, [index |-> index, by |-> by,
                                            via |-> "hotkey", spawned |-> known])
             /\ UNCHANGED <<bridge_vars, workers, status_var>>

\* on_hotkey_fired(hotkey_id), called by the thread `by`.
on_hotkey_fired(hotkey_id, by) ==
    IF ~ DictHas(hotkey_id_to_index, hotkey_id)
    THEN UNCHANGED <<bridge_vars, act_log, workers, status_var>>
    ELSE /\ run_in_ui(Callback("activate", DictGet(hotkey_id_to_index, hotkey_id),
                               FALSE, by))
         /\ UNCHANGED <<ran, act_log, workers, status_var>>

\* ------------------------------------------ HotkeyManager._message_loop
\* line 212: self.thread_id = GetCurrentThreadId()
L212(t) ==
    /\ lpc[t] = "l212"
    /\ thread_id' = t
    /\ lpc' = [lpc EXCEPT ![t] = "l213"]
    /\ UNCHANGED <<os_nt, hotkeys, hotkey_map, thread, ready, errors, stops,
                   l_iter,
                   os_vars, bridge_vars, app_vars, ui_pc, synth_vars>>

\* A loop that signals readiness before the registration loop.
L213_SignalsReady(t) ==
    /\ lpc[t] = "l213"
    /\ has_queue' = has_queue \cup {t}
    /\ l_iter' = [l_iter EXCEPT ![t] = hotkey_map]
    /\ ready' = TRUE
    /\ lpc' = [lpc EXCEPT ![t] = IF hotkey_map = << >> THEN "l219" ELSE "l216"]
    /\ UNCHANGED <<os_nt, hotkeys, hotkey_map, thread, thread_id, errors, stops,
                   msgq, os_hotkeys, taken, os_calls, presses,
                   bridge_vars, app_vars, ui_pc, synth_vars>>

\* line 213: PeekMessageW creates the thread's message queue; line 215 then
\* takes the iterator of the dict that self.hotkey_map is at that moment.
L213(t) ==
    /\ lpc[t] = "l213"
    /\ has_queue' = has_queue \cup {t}
    /\ l_iter' = [l_iter EXCEPT ![t] = hotkey_map]
    /\ lpc' = [lpc EXCEPT ![t] = IF hotkey_map = << >> THEN "l219" ELSE "l216"]
    /\ UNCHANGED <<os_nt, mgr_vars, msgq, os_hotkeys, taken, os_calls, presses,
                   bridge_vars, app_vars, ui_pc, synth_vars>>

\* A registration loop that gives up at the first bind that fails.
RegisterStep_StopsAtFailure(t) ==
    LET id == Head(l_iter[t])[1]
        vk == Head(l_iter[t])[2]
        ok == RegisterHotKeyOk(vk)
    IN  /\ os_calls' = [os_calls EXCEPT ![t] =
                            Append(@, [op |-> "RegisterHotKey", id |-> id, ok |-> ok])]
        /\ os_hotkeys' = IF ok THEN os_hotkeys \cup {[owner |-> t, id |-> id, vk |-> vk]}
                         ELSE os_hotkeys
        /\ errors' = IF ok THEN errors ELSE Append(errors, id)
        /\ l_iter' = [l_iter EXCEPT ![t] = IF ok THEN Tail(@) ELSE << >>]
        /\ lpc' = [lpc EXCEPT ![t] = IF Tail(l_iter[t]) = << >> \/ ~ ok
                                     THEN "l219" ELSE "l216"]

\* lines 215-217: one iteration of the registration loop.
RegisterStep(t) ==
    LET id == Head(l_iter[t])[1]
        vk == Head(l_iter[t])[2]
        ok == RegisterHotKeyOk(vk)
    IN  /\ os_calls' = [os_calls EXCEPT ![t] =
                            Append(@, [op |-> "RegisterHotKey", id |-> id, ok |-> ok])]
        /\ os_hotkeys' = IF ok THEN os_hotkeys \cup {[owner |-> t, id |-> id, vk |-> vk]}
                         ELSE os_hotkeys
        /\ errors' = IF ok THEN errors ELSE Append(errors, id)
        /\ l_iter' = [l_iter EXCEPT ![t] = Tail(@)]
        /\ lpc' = [lpc EXCEPT ![t] = IF Tail(l_iter[t]) = << >> THEN "l219" ELSE "l216"]

L216(t) ==
    /\ lpc[t] = "l216"
    /\ RegisterStep(t)
    /\ UNCHANGED <<os_nt, hotkeys, hotkey_map, thread, thread_id, ready, stops,
                   has_queue, msgq, taken, presses, bridge_vars, app_vars, ui_pc,
                   synth_vars>>

\* line 219: self.ready.set()
L219(t) ==
    /\ lpc[t] = "l219"
    /\ ready' = TRUE
    /\ lpc' = [lpc EXCEPT ![t] = "l221"]
    /\ UNCHANGED <<os_nt, hotkeys, hotkey_map, thread, thread_id, errors, stops,
                   l_iter,
                   os_vars, bridge_vars, app_vars, ui_pc, synth_vars>>

\* lines 221-223: GetMessageW blocks until a message is there; WM_HOTKEY is
\* handed to notify, which is on_hotkey_fired.
L221Hotkey(t) ==
    /\ lpc[t] = "l221"
    /\ msgq[t] # << >>
    /\ Head(msgq[t]).message = WM_HOTKEY
    /\ msgq' = [msgq EXCEPT ![t] = Tail(@)]
    /\ on_hotkey_fired(Head(msgq[t]).wParam, "loop")
    /\ UNCHANGED <<os_nt, mgr_vars, loop_vars, has_queue, os_hotkeys, taken,
                   os_calls, presses, hotkey_id_to_index, root_exists,
                   poll_scheduled, close_protocol, equipped, stratagem_names, stratagems, input_keys,
                   key_delay_ms, icon_jobs, config_changes, ui_pc, input_log>>

\* A while loop that takes WM_QUIT off the queue and goes on waiting.
L221Quit_KeepsRunning(t) ==
    /\ lpc[t] = "l221"
    /\ msgq[t] # << >>
    /\ Head(msgq[t]).message = WM_QUIT
    /\ msgq' = [msgq EXCEPT ![t] = Tail(@)]
    /\ UNCHANGED <<l_iter, lpc>>
    /\ UNCHANGED <<os_nt, mgr_vars, has_queue, os_hotkeys, taken, os_calls,
                   presses, bridge_vars, app_vars, ui_pc, synth_vars>>

\* GetMessageW returns 0 on WM_QUIT: the while loop ends, and line 225 takes
\* list(self.hotkey_map.keys()) of the dict that self.hotkey_map is then.
L221Quit(t) ==
    /\ lpc[t] = "l221"
    /\ msgq[t] # << >>
    /\ Head(msgq[t]).message = WM_QUIT
    /\ msgq' = [msgq EXCEPT ![t] = Tail(@)]
    /\ l_iter' = [l_iter EXCEPT ![t] = hotkey_map]
    /\ lpc' = [lpc EXCEPT ![t] = IF hotkey_map = << >> THEN "done" ELSE "l226"]
    /\ UNCHANGED <<os_nt, mgr_vars, has_queue, os_hotkeys, taken, os_calls,
                   presses, bridge_vars, app_vars, ui_pc, synth_vars>>

\* An unregistration loop that passes the key code where the id belongs.
UnregisterStep_PassesKeyCode(t) ==
    LET id == Head(l_iter[t])[2]
    IN  /\ os_calls' = [os_calls EXCEPT ![t] =
                            Append(@, [op |-> "UnregisterHotKey", id |-> id,
                                       ok |-> \E h \in os_hotkeys :
                                                  h.owner = t /\ h.id = id])]
        /\ os_hotkeys' = {h \in os_hotkeys : ~ (h.owner = t /\ h.id = id)}
        /\ l_iter' = [l_iter EXCEPT ![t] = Tail(@)]
        /\ lpc' = [lpc EXCEPT ![t] = IF Tail(l_iter[t]) = << >> THEN "done" ELSE "l226"]

\* lines 225-226: one iteration of the unregistration loop.
UnregisterStep(t) ==
    LET id == Head(l_iter[t])[1]
    IN  /\ os_calls' = [os_calls EXCEPT ![t] =
                            Append(@, [op |-> "UnregisterHotKey", id |-> id,
                                       ok |-> \E h \in os_hotkeys :
                                                  h.owner = t /\ h.id = id])]
        /\ os_hotkeys' = {h \in os_hotkeys : ~ (h.owner = t /\ h.id = id)}
        /\ l_iter' = [l_iter EXCEPT ![t] = Tail(@)]
        /\ lpc' = [lpc EXCEPT ![t] = IF Tail(l_iter[t]) = << >> THEN "done" ELSE "l226"]

L226(t) ==
    /\ lpc[t] = "l226"
    /\ UnregisterStep(t)
    /\ UNCHANGED <<os_nt, mgr_vars, has_queue, msgq, taken, presses, bridge_vars,
                   app_vars, ui_pc, synth_vars>>

LoopStep(t) ==
    \/ L212(t)
    \/ L213(t)
    \/ L216(t)
    \/ L219(t)
    \/ L221Hotkey(t)
    \/ L221Quit(t)
    \/ L226(t)

\* ------------------------------------------- HotkeyManager.start / stop
\* The thread object a start() creates: the first loop thread not yet used.
NewThread == CHOOSE t \in Threads : lpc[t] = "unborn" /\ \A u \in Threads : u < t => lpc[u] # "unborn"

\* lines 199-201 of start(hotkey_map); line 202 is the caller's wait.
start(m) ==
    /\ hotkey_map' = m
    /\ thread' = NewThread
    /\ lpc' = [lpc EXCEPT ![NewThread] = "l212"]

\* A stop() that also unregisters the ids of the map itself, from the
\* calling thread.
stop_post_Unregisters ==
    /\ stops' = [n |-> stops.n + 1,
                  idle |-> stops.idle \/ (thread # None /\ \A t \in Threads :
                                                               lpc[t] \in {"unborn", "done"})]
    /\ IF thread_id # None
       THEN PostThreadMessageW(thread_id, [message |-> WM_QUIT, wParam |-> 0])
       ELSE UNCHANGED msgq
    /\ os_calls' = [os_calls EXCEPT ![Caller] =
                        @ \o [k \in 1 .. Len(hotkey_map) |->
                                 [op |-> "UnregisterHotKey", id |-> hotkey_map[k][1],
                                  ok |-> FALSE]]]
    /\ UNCHANGED os_hotkeys

\* lines 205-206 of stop(); lines 207-208 are the caller's join.
stop_post ==
    /\ stops' = [n |-> stops.n + 1,
                  idle |-> stops.idle \/ (thread # None /\ \A t \in Threads :
                                                               lpc[t] \in {"unborn", "done"})]
    /\ IF thread_id # None
       THEN PostThreadMessageW(thread_id, [message |-> WM_QUIT, wParam |-> 0])
       ELSE UNCHANGED msgq
    /\ UNCHANGED <<os_hotkeys, os_calls>>

\* --------------------------------------------------- macro catalog
\* stratagem_map (loaded from stratagems.json, which is data): name -> sequence.
\* The tokens cover an upper-case key, a lower-case one and one no map knows.
CatalogNames == {"Resupply", "Flare"}
LoadedCatalog ==
    [name \in CatalogNames |->
        CASE name = "Resupply" -> <<"s", "??", "D">>
          [] name = "Flare" -> <<"W">>]
\* The tokens a sequence of the file may hold: keys in either case and one
\* no table knows.
Tokens == {"W", "a", "s", "D", "??"}
TokenSeqs == UNION {[1 .. n -> Tokens] : n \in 0 .. MaxSeqLen}
\* The catalogs load_stratagems may return: the first entry with any
\* sequence of the file's tokens.
LoadedCatalogs ==
    {LoadedCatalog} \cup {[LoadedCatalog EXCEPT !["Resupply"] = S] : S \in TokenSeqs}
\* self.stratagem_map[name].sequence, lines 241 and 851.
stratagem_map(name) == stratagems[name]
\* self.stratagem_names, line 243: the names in the order of the file.
CatalogOrder == <<"Resupply", "Flare">>

\* lines 274-276: the persisted names the catalog lacks are appended to
\* stratagem_names, once each; an empty name is left out.
RECURSIVE NamesAfterStartup(_, _)
NamesAfterStartup(persisted, names) ==
    IF persisted = << >>
    THEN names
    ELSE NamesAfterStartup(Tail(persisted),
                           IF Head(persisted) # "" /\ Head(persisted) \notin SeqSet(names)
                           THEN Append(names, Head(persisted))
                           ELSE names)

\* The slice s[:n] of Python, for n >= 0.
Slice(s, n) == SubSeq(s, 1, IF n < Len(s) THEN n ELSE Len(s))

\* lines 278-281: a persisted list shorter than the keybinds is extended
\* with the first names of stratagem_names, and the result is cut to the
\* number of keybinds.
StartupEquipped(persisted, names) ==
    LET all == NamesAfterStartup(persisted, names)
        filled == IF Len(persisted) < NumSlots
                  THEN persisted \o Slice(all, NumSlots - Len(persisted))
                  ELSE persisted
    IN  Slice(filled, NumSlots)

\* The equipped list at startup: names of the catalog and, in the second
\* slot, one the catalog no longer has.
EquippedAtStart ==
    [k \in 1 .. NumSlots |->
        CASE k % 3 = 1 -> "Resupply" [] k % 3 = 2 -> "Deleted" [] OTHER -> "Flare"]

\* An equipped list with the one-token stratagem in every slot.
EquippedAllFlare == [k \in 1 .. NumSlots |-> "Flare"]

\* str.upper() on a token.
upper(tok) ==
    CASE tok = "w" -> "W"
      [] tok = "a" -> "A"
      [] tok = "s" -> "S"
      [] tok = "d" -> "D"
      [] OTHER -> tok

\* KEY_VK.get(key_name), lines 50-55; None when the key is not there.
KEY_VK(key_name) ==
    CASE key_name = "W" -> 87
      [] key_name = "A" -> 65
      [] key_name = "S" -> 83
      [] key_name = "D" -> 68
      [] OTHER -> None

\* An arrow table without the left arrow.
arrow_vk_NoLeft(key_name) ==
    CASE key_name = "W" -> VK_UP
      [] key_name = "S" -> VK_DOWN
      [] key_name = "D" -> VK_RIGHT
      [] OTHER -> None

\* arrow_vk.get(key_name), line 924.
arrow_vk(key_name) ==
    CASE key_name = "W" -> VK_UP
      [] key_name = "A" -> VK_LEFT
      [] key_name = "S" -> VK_DOWN
      [] key_name = "D" -> VK_RIGHT
      [] OTHER -> None

\* lines 927-931: the code of a token under the setting read at that moment.
ResolveVk(entry, keys) ==
    IF keys = "arrows" THEN arrow_vk(upper(entry)) ELSE KEY_VK(upper(entry))

\* ------------------------------------------------ activate_stratagem
NewWorker(sequence) ==
    [sequence |-> sequence, pos |-> 1, pc |-> "start", vk |-> None, slept |-> 0]

\* An activation that starts a worker for a name the catalog does not have.
activate_stratagem_SpawnsUnknown(index, by, via) ==
    LET name == equipped[index + 1]
        known == name \in CatalogNames
    IN  /\ act_log' = Append(act_log, [index |-> index, by |-> by, via |-> via,
                                       spawned |-> known])
        /\ status_var' = [kind |-> IF known THEN "Activated" ELSE "Unknown stratagem",
                          name |-> name, id |-> 0]
        /\ workers' = Append(workers,
                             NewWorker(IF known THEN stratagem_map(name) ELSE << >>))

\* activate_stratagem(index), run by thread `by`, reached through `via`.
activate_stratagem(index, by, via) ==
    LET name == equipped[index + 1]
        known == name \in CatalogNames
    IN  /\ act_log' = Append(act_log, [index |-> index, by |-> by, via |-> via,
                                       spawned |-> known])
        /\ IF known
           THEN /\ status_var' = [kind |-> "Activated", name |-> name, id |-> 0]
                /\ workers' = Append(workers, NewWorker(stratagem_map(name)))
           ELSE /\ status_var' = [kind |-> "Unknown stratagem", name |-> name, id |-> 0]
                /\ UNCHANGED workers

\* ------------------------------------------------- process_ui_queue
\* The timer fires: process_ui_queue starts.
DrainBegin ==
    /\ ui_pc = "idle"
    /\ poll_scheduled
    /\ poll_scheduled' = FALSE
    /\ ui_pc' = "drain"
    /\ UNCHANGED <<os_nt, mgr_vars, loop_vars, os_vars, bridge_vars,
                   hotkey_id_to_index, status_var, root_exists, close_protocol,
                   equipped, stratagem_names, stratagems, input_keys, key_delay_ms, act_log, icon_jobs,
                   config_changes, synth_vars>>

\* An entry of `ran`: the callback, how it ended and, for one that raised,
\* how many callbacks were queued behind it when it was taken.
Ran(func, outcome) ==
    [func |-> func, outcome |-> outcome,
     behind |-> IF outcome = "raised" THEN Len(ui_queue) - 1 ELSE 0]

\* A drain in which the exception of func leaves process_ui_queue.
RunCallback_Propagates(func) ==
    IF ~ root_exists
    THEN /\ ui_pc' = "drain"
         /\ ran' = Append(ran, Ran(func, "skipped"))
         /\ UNCHANGED <<act_log, status_var, workers>>
    ELSE IF func.kind = "activate"
    THEN /\ ui_pc' = "drain"
         /\ ran' = Append(ran, Ran(func, "ok"))
         /\ activate_stratagem(func.index, "ui", "hotkey")
    ELSE IF func.fails
    THEN /\ ui_pc' = "idle"
         /\ ran' = Append(ran, Ran(func, "raised"))
         /\ UNCHANGED <<act_log, status_var, workers>>
    ELSE /\ ui_pc' = "drain"
         /\ ran' = Append(ran, Ran(func, "ok"))
         /\ UNCHANGED <<act_log, status_var, workers>>

\* lines 841-845: func() if the window exists; an exception of func becomes
\* the status text and the loop goes on.
RunCallback(func) ==
    /\ ui_pc' = "drain"
    /\ IF ~ root_exists
       THEN /\ ran' = Append(ran, Ran(func, "skipped"))
            /\ UNCHANGED <<act_log, status_var, workers>>
       ELSE IF func.kind = "activate"
       THEN /\ ran' = Append(ran, Ran(func, "ok"))
            /\ activate_stratagem(func.index, "ui", "hotkey")
       ELSE IF func.fails
       THEN /\ ran' = Append(ran, Ran(func, "raised"))
            /\ status_var' = [kind |-> "UI update error", name |-> "", id |-> 0]
            /\ UNCHANGED <<act_log, workers>>
       ELSE /\ ran' = Append(ran, Ran(func, "ok"))
            /\ UNCHANGED <<act_log, status_var, workers>>

\* A queue that hands out its newest entry.
get_nowait_Lifo ==
    [func |-> ui_queue[Len(ui_queue)], rest |-> SubSeq(ui_queue, 1, Len(ui_queue) - 1)]

\* line 838: queue.Queue.get_nowait() takes the oldest entry.
get_nowait == [func |-> Head(ui_queue), rest |-> Tail(ui_queue)]

\* A UI thread that waits for the workers before it takes the next callback.
DrainStep_JoinsWorkers ==
    /\ \A w \in 1 .. Len(workers) : workers[w].pc \in {"done", "raised"}
    /\ ui_pc = "drain"
    /\ ui_queue # << >>
    /\ ui_queue' = get_nowait.rest
    /\ RunCallback(get_nowait.func)
    /\ UNCHANGED <<os_nt, mgr_vars, loop_vars, os_vars, n_pushed,
                   hotkey_id_to_index, root_exists, poll_scheduled,
                   close_protocol, equipped, stratagem_names, stratagems, input_keys, key_delay_ms, icon_jobs,
                   config_changes, input_log>>

DrainStep ==
    /\ ui_pc = "drain"
    /\ ui_queue # << >>
    /\ ui_queue' = get_nowait.rest
    /\ RunCallback(get_nowait.func)
    /\ UNCHANGED <<os_nt, mgr_vars, loop_vars, os_vars, n_pushed,
                   hotkey_id_to_index, root_exists, poll_scheduled,
                   close_protocol, equipped, stratagem_names, stratagems, input_keys, key_delay_ms, icon_jobs,
                   config_changes, input_log>>

\* A process_ui_queue that does not schedule itself again.
DrainEnd_NoReschedule ==
    /\ ui_pc = "drain"
    /\ ui_queue = << >>
    /\ poll_scheduled' = FALSE
    /\ ui_pc' = "idle"
    /\ UNCHANGED <<os_nt, mgr_vars, loop_vars, os_vars, bridge_vars,
                   hotkey_id_to_index, status_var, root_exists, close_protocol,
                   equipped, stratagem_names, stratagems, input_keys, key_delay_ms, act_log, icon_jobs,
                   config_changes, synth_vars>>

\* lines 839-840 and 846-847: queue.Empty ends the loop, and the poll is
\* scheduled again if the window exists.
DrainEnd ==
    /\ ui_pc = "drain"
    /\ ui_queue = << >>
    /\ poll_scheduled' = root_exists
    /\ ui_pc' = "idle"
    /\ UNCHANGED <<os_nt, mgr_vars, loop_vars, os_vars, bridge_vars,
                   hotkey_id_to_index, status_var, root_exists, close_protocol,
                   equipped, stratagem_names, stratagems, input_keys, key_delay_ms, act_log, icon_jobs,
                   config_changes, synth_vars>>

\* render_icon_async, line 788: an icon thread pushes apply_icon, which may
\* raise when it runs (Image.open, lines 775-777).
IconThreadPush(fails) ==
    /\ icon_jobs < MaxIconJobs
    /\ icon_jobs' = icon_jobs + 1
    /\ run_in_ui(Callback("apply_icon", 0, fails, "icon"))
    /\ UNCHANGED <<os_nt, mgr_vars, loop_vars, os_vars, ran, hotkey_id_to_index,
                   status_var, root_exists, poll_scheduled, close_protocol,
                   equipped, stratagem_names, stratagems, input_keys, key_delay_ms, act_log, config_changes,
                   ui_pc, synth_vars>>

\* register_local_bindings, line 815: a numpad key pressed in the app's window.
LocalKey(index) ==
    /\ ui_pc = "idle"
    /\ root_exists
    /\ Cardinality({k \in 1 .. Len(act_log) : act_log[k].via = "local"}) < MaxLocalKeys
    /\ activate_stratagem(index, "ui", "local")
    /\ UNCHANGED <<os_nt, mgr_vars, loop_vars, os_vars, bridge_vars,
                   hotkey_id_to_index, root_exists, poll_scheduled,
                   close_protocol, equipped, stratagem_names, stratagems, input_keys, key_delay_ms, icon_jobs,
                   config_changes, ui_pc, input_log>>

\* on_input_keys_change, lines 681-684: the combobox label decides the setting.
on_input_keys_change(label) ==
    /\ ui_pc = "idle"
    /\ root_exists
    /\ config_changes < MaxConfigChanges
    /\ config_changes' = config_changes + 1
    /\ input_keys' = IF label = "Arrows" THEN "arrows" ELSE "wasd"
    /\ UNCHANGED <<os_nt, mgr_vars, loop_vars, os_vars, bridge_vars,
                   hotkey_id_to_index, status_var, root_exists, poll_scheduled,
                   close_protocol, equipped, stratagem_names, stratagems, key_delay_ms, act_log, icon_jobs,
                   ui_pc, synth_vars>>

\* What the user may leave in the delay spinbox: text that is no number
\* (IntVar.get() raises), or a number below, inside or above the range.
\* UserData.load, line 110: int(raw.get("key_delay_ms", 40)), any integer the
\* file holds; 40 when the file or the key is absent.
LoadedDelays == {-5, DEFAULT_KEY_DELAY_MS, 1000}

KeyDelayEntries ==
    {[valid |-> FALSE, value |-> 0], [valid |-> TRUE, value |-> 5],
     [valid |-> TRUE, value |-> 400]}

Max(a, b) == IF a >= b THEN a ELSE b
Min(a, b) == IF a <= b THEN a ELSE b

\* line 676: value = max(10, min(300, value))
ClampDelay(value) == Max(10, Min(300, value))

\* on_key_delay_change, lines 671-679.
on_key_delay_change(entry) ==
    /\ ui_pc = "idle"
    /\ root_exists
    /\ config_changes < MaxConfigChanges
    /\ config_changes' = config_changes + 1
    /\ key_delay_ms' = IF entry.valid THEN ClampDelay(entry.value) ELSE key_delay_ms
    /\ UNCHANGED <<os_nt, mgr_vars, loop_vars, os_vars, bridge_vars,
                   hotkey_id_to_index, status_var, root_exists, poll_scheduled,
                   close_protocol, equipped, stratagem_names, stratagems, input_keys, act_log, icon_jobs,
                   ui_pc, synth_vars>>

\* ------------------------------------------------------ send_sequence
\* send_ctrl(flags), lines 917-920: the control key by scan code.
\* An injected event together with the time.sleep that follows it (lines
\* 923, 935 and 937), in milliseconds; 0 when none follows.
ThenSleep(e, ms) ==
    [w |-> e.w, wVk |-> e.wVk, wScan |-> e.wScan, dwFlags |-> e.dwFlags,
     tok |-> e.tok, sleep |-> ms]

send_ctrl(w, flags) ==
    [w |-> w, wVk |-> 0, wScan |-> SCAN_CONTROL,
     dwFlags |-> flags + KEYEVENTF_SCANCODE, tok |-> 0]

\* A send_key that drops its flags: every event is a key-down.
send_key_DropsFlags(w, vk, flags, tok) ==
    [w |-> w, wVk |-> vk, wScan |-> 0, dwFlags |-> 0, tok |-> tok]

\* send_key(vk, flags), lines 913-915: a key by virtual-key code.
send_key(w, vk, flags, tok) ==
    [w |-> w, wVk |-> vk, wScan |-> 0, dwFlags |-> flags, tok |-> tok]

\* A worker that starts on the tokens without pressing the control key.
WStart_NoModifier(w) ==
    /\ workers[w].pc = "start"
    /\ workers' = [workers EXCEPT ![w].pc = IF os_nt THEN "l926" ELSE "done"]
    /\ UNCHANGED input_log
    /\ UNCHANGED <<os_nt, mgr_vars, loop_vars, os_vars, bridge_vars, app_vars, ui_pc>>

\* lines 862-863 and 922-923: nothing on another platform; else the control
\* key goes down and the thread sleeps 20 ms.
WStart(w) ==
    /\ workers[w].pc = "start"
    /\ IF os_nt
       THEN /\ input_log' = Append(input_log, ThenSleep(send_ctrl(w, 0), PRESS_HOLD_MS))
            /\ workers' = [workers EXCEPT ![w].pc = "l926",
                                          ![w].slept = @ + PRESS_HOLD_MS]
       ELSE /\ workers' = [workers EXCEPT ![w].pc = "done"]
            /\ UNCHANGED input_log
    /\ UNCHANGED <<os_nt, mgr_vars, loop_vars, os_vars, bridge_vars, app_vars, ui_pc>>

\* A loop that stops at the first token without a code.
TokenStep_BreaksOnUnknown(w) ==
    LET wk == workers[w]
        vk == ResolveVk(wk.sequence[wk.pos], input_keys)
    IN  IF vk = None
        THEN /\ workers' = [workers EXCEPT ![w].pos = Len(wk.sequence) + 1]
             /\ UNCHANGED input_log
        ELSE /\ input_log' = Append(input_log,
                                    ThenSleep(send_key(w, vk, 0, wk.pos), PRESS_HOLD_MS))
             /\ workers' = [workers EXCEPT ![w].pc = "l936", ![w].vk = vk,
                                           ![w].slept = @ + PRESS_HOLD_MS]

\* lines 926-935: the next token.  Its code is looked up under the setting as
\* it is now; a token without a code is skipped; else the key goes down and
\* the thread sleeps 20 ms.
TokenStep(w) ==
    LET wk == workers[w]
        vk == ResolveVk(wk.sequence[wk.pos], input_keys)
    IN  IF vk = None
        THEN /\ workers' = [workers EXCEPT ![w].pos = @ + 1]
             /\ UNCHANGED input_log
        ELSE /\ input_log' = Append(input_log,
                                    ThenSleep(send_key(w, vk, 0, wk.pos), PRESS_HOLD_MS))
             /\ workers' = [workers EXCEPT ![w].pc = "l936", ![w].vk = vk,
                                           ![w].slept = @ + PRESS_HOLD_MS]

W926(w) ==
    /\ workers[w].pc = "l926"
    /\ workers[w].pos <= Len(workers[w].sequence)
    /\ TokenStep(w)
    /\ UNCHANGED <<os_nt, mgr_vars, loop_vars, os_vars, bridge_vars, app_vars, ui_pc>>

\* A worker that sleeps the default delay whatever the setting is.
W936_SleepsDefault(w) ==
    /\ workers[w].pc = "l936"
    /\ input_log' = Append(input_log,
                           ThenSleep(send_key(w, workers[w].vk, KEYEVENTF_KEYUP,
                                              workers[w].pos), DEFAULT_KEY_DELAY_MS))
    /\ workers' = [workers EXCEPT ![w].pc = "l926", ![w].pos = @ + 1,
                                  ![w].slept = @ + DEFAULT_KEY_DELAY_MS]
    /\ UNCHANGED <<os_nt, mgr_vars, loop_vars, os_vars, bridge_vars, app_vars, ui_pc>>

\* lines 936-937: the key goes up, and the thread sleeps key_delay_ms as it
\* is now.  time.sleep raises ValueError on a negative length: the thread
\* ends there.
W936(w) ==
    /\ workers[w].pc = "l936"
    /\ input_log' = Append(input_log,
                           ThenSleep(send_key(w, workers[w].vk, KEYEVENTF_KEYUP,
                                              workers[w].pos), key_delay_ms))
    /\ workers' = IF key_delay_ms < 0
                  THEN [workers EXCEPT ![w].pc = "raised"]
                  ELSE [workers EXCEPT ![w].pc = "l926", ![w].pos = @ + 1,
                                       ![w].slept = @ + key_delay_ms]
    /\ UNCHANGED <<os_nt, mgr_vars, loop_vars, os_vars, bridge_vars, app_vars, ui_pc>>

\* line 938: after the last token the control key goes up.
W938(w) ==
    /\ workers[w].pc = "l926"
    /\ workers[w].pos > Len(workers[w].sequence)
    /\ input_log' = Append(input_log, ThenSleep(send_ctrl(w, KEYEVENTF_KEYUP), 0))
    /\ workers' = [workers EXCEPT ![w].pc = "done"]
    /\ UNCHANGED <<os_nt, mgr_vars, loop_vars, os_vars, bridge_vars, app_vars, ui_pc>>

WorkerStep(w) ==
    \/ WStart(w)
    \/ W926(w)
    \/ W936(w)
    \/ W938(w)

\* -------------------------------------------------- the UI thread
\* register_hotkeys without the test of os.name at line 791.
UiRegisterHotkeys_IgnoresPlatform ==
    /\ ui_pc = "init"
    /\ hotkeys' = TRUE
    /\ hotkey_id_to_index' = BuildIdToIndex(AppKeybinds)
    /\ start(BuildHotkeyMap(AppKeybinds))
    /\ ui_pc' = "start_wait"
    /\ UNCHANGED <<status_var, poll_scheduled>>
    /\ UNCHANGED <<os_nt, thread_id, ready, errors, stops, l_iter, os_vars,
                   bridge_vars, root_exists, close_protocol, equipped,
                   stratagem_names, stratagems, input_keys, key_delay_ms, act_log, icon_jobs,
                   config_changes, synth_vars>>

\* register_hotkeys, lines 790-807, up to the wait of start(); on another
\* platform the status says so and __init__ goes on (line 302).
UiRegisterHotkeys ==
    /\ ui_pc = "init"
    /\ IF ~ os_nt
       THEN /\ status_var' = [kind |-> "Hotkeys are supported only on Windows.",
                              name |-> "", id |-> 0]
            /\ poll_scheduled' = TRUE
            /\ ui_pc' = "idle"
            /\ UNCHANGED <<hotkeys, hotkey_map, thread, lpc, hotkey_id_to_index>>
       ELSE /\ hotkeys' = TRUE
            /\ hotkey_id_to_index' = BuildIdToIndex(AppKeybinds)
            /\ start(BuildHotkeyMap(AppKeybinds))
            /\ ui_pc' = "start_wait"
            /\ UNCHANGED <<status_var, poll_scheduled>>
    /\ UNCHANGED <<os_nt, thread_id, ready, errors, stops, l_iter, os_vars,
                   bridge_vars, root_exists, close_protocol, equipped, stratagem_names, stratagems, input_keys,
                   key_delay_ms, act_log, icon_jobs, config_changes, synth_vars>>

\* lines 808-809: the first error, if there is one by now, becomes the status.
ReportErrors ==
    IF errors # << >>
    THEN status_var' = [kind |-> "Failed to register hotkey", name |-> "",
                        id |-> errors[1]]
    ELSE UNCHANGED status_var

\* line 202, self.ready.wait(timeout=2), returns: the event is set or the two
\* seconds are over.  Then lines 808-811 and the rest of __init__.
UiStartReturns ==
    /\ ui_pc = "start_wait"
    /\ ReportErrors
    /\ close_protocol' = TRUE
    /\ poll_scheduled' = TRUE
    /\ ui_pc' = "idle"
    /\ UNCHANGED <<os_nt, mgr_vars, loop_vars, os_vars, bridge_vars,
                   hotkey_id_to_index, root_exists, equipped, stratagem_names, stratagems, input_keys,
                   key_delay_ms, act_log, icon_jobs, config_changes, synth_vars>>

\* on_close, lines 940-942: the window is closed; stop() posts the quit.
OnClose ==
    /\ ui_pc = "idle"
    /\ root_exists
    /\ close_protocol
    /\ hotkeys
    /\ stop_post
    /\ ui_pc' = "stop_join"
    /\ UNCHANGED <<os_nt, hotkeys, hotkey_map, thread, thread_id, ready, errors,
                   loop_vars, has_queue, taken, presses, bridge_vars, app_vars,
                   synth_vars>>

\* lines 207-208 and 943: join(timeout=1) returns, because the thread ended
\* or the second is over; stop() returns and the window is destroyed.
OnCloseJoinReturns ==
    /\ ui_pc = "stop_join"
    /\ root_exists' = FALSE
    /\ poll_scheduled' = FALSE
    /\ ui_pc' = "closed"
    /\ UNCHANGED <<os_nt, mgr_vars, loop_vars, os_vars, bridge_vars,
                   hotkey_id_to_index, status_var, close_protocol, equipped, stratagem_names, stratagems,
                   input_keys, key_delay_ms, act_log, icon_jobs, config_changes,
                   synth_vars>>

\* Without the protocol (no hotkeys), closing the window destroys it.
CloseDefault ==
    /\ ui_pc = "idle"
    /\ root_exists
    /\ ~ close_protocol
    /\ root_exists' = FALSE
    /\ poll_scheduled' = FALSE
    /\ ui_pc' = "closed"
    /\ UNCHANGED <<os_nt, mgr_vars, loop_vars, os_vars, bridge_vars,
                   hotkey_id_to_index, status_var, close_protocol, equipped, stratagem_names, stratagems,
                   input_keys, key_delay_ms, act_log, icon_jobs, config_changes,
                   synth_vars>>

\* main(), lines 968-974: mainloop() returns once the window is destroyed,
\* main returns and the interpreter exits.  The loop thread (line 200) and
\* the workers (line 857) are daemon threads: the ones still running end
\* where they stand, and the OS drops the hotkeys of the dead process.
MainReturns ==
    /\ ui_pc = "closed"
    /\ ui_pc' = "exited"
    /\ workers' = [w \in 1 .. Len(workers) |->
                      IF workers[w].pc \in {"done", "raised"}
                      THEN workers[w]
                      ELSE [workers[w] EXCEPT !.pc = "killed"]]
    /\ lpc' = [t \in Threads |->
                  IF lpc[t] \in {"unborn", "done"} THEN lpc[t] ELSE "killed"]
    /\ os_hotkeys' = {}
    /\ UNCHANGED <<os_nt, mgr_vars, l_iter, has_queue, msgq, taken, os_calls,
                   presses, bridge_vars, app_vars, input_log>>

\* ------------------------------------------------ the application
\* The state when StratagemApp.__init__ reaches register_hotkeys (line 297).
Init ==
    /\ os_nt \in BOOLEAN
    /\ hotkeys = FALSE
    /\ hotkey_map = << >>
    /\ thread = None
    /\ thread_id = None
    /\ ready = FALSE
    /\ errors = << >>
    /\ stops = [n |-> 0, idle |-> FALSE]
    /\ lpc = [t \in Threads |-> "unborn"]
    /\ l_iter = [t \in Threads |-> << >>]
    /\ has_queue = {}
    /\ msgq = [t \in Threads |-> << >>]
    /\ os_hotkeys = {}
    /\ taken \in SUBSET PressableKeys
    /\ os_calls = [t \in AllThreads |-> << >>]
    /\ presses = << >>
    /\ hotkey_id_to_index = << >>
    /\ ui_queue = << >>
    /\ n_pushed = 0
    /\ ran = << >>
    /\ status_var = [kind |-> "Ready", name |-> "", id |-> 0]
    /\ root_exists = TRUE
    /\ poll_scheduled = FALSE
    /\ close_protocol = FALSE
    /\ ui_pc = "init"
    /\ equipped = EquippedAtStart
    /\ stratagem_names = NamesAfterStartup(equipped, CatalogOrder)
    /\ stratagems = LoadedCatalog
    /\ input_keys = "wasd"
    /\ key_delay_ms = DEFAULT_KEY_DELAY_MS
    /\ act_log = << >>
    /\ icon_jobs = 0
    /\ config_changes = 0
    /\ workers = << >>
    /\ input_log = << >>

Next ==
    \/ UiRegisterHotkeys
    \/ UiStartReturns
    \/ DrainBegin
    \/ DrainStep
    \/ DrainEnd
    \/ OnClose
    \/ OnCloseJoinReturns
    \/ CloseDefault
    \/ \E vk \in PressableKeys : KeyPressed(vk)
    \/ \E t \in Threads : LoopStep(t)

Spec == Init /\ [][Next]_vars

\* ------------------------------------------- the application, started
\* The state in which __init__ leaves the app on Windows when every hotkey
\* was bound and the loop thread waits in GetMessageW.
AppStarted ==
    /\ os_nt = TRUE
    /\ hotkeys = TRUE
    /\ hotkey_map = BuildHotkeyMap(AppKeybinds)
    /\ thread = 1
    /\ thread_id = 1
    /\ ready = TRUE
    /\ errors = << >>
    /\ stops = [n |-> 0, idle |-> FALSE]
    /\ lpc = [t \in Threads |-> IF t = 1 THEN "l221" ELSE "unborn"]
    /\ l_iter = [t \in Threads |-> << >>]
    /\ has_queue = {1}
    /\ msgq = [t \in Threads |-> << >>]
    /\ os_hotkeys = {[owner |-> 1, id |-> BuildHotkeyMap(AppKeybinds)[k][1],
                       vk |-> BuildHotkeyMap(AppKeybinds)[k][2]] : k \in 1 .. NumSlots}
    /\ taken = {}
    /\ os_calls = [t \in AllThreads |->
                      IF t = 1
                      THEN [k \in 1 .. NumSlots |->
                               [op |-> "RegisterHotKey",
                                id |-> BuildHotkeyMap(AppKeybinds)[k][1], ok |-> TRUE]]
                      ELSE << >>]
    /\ presses = << >>
    /\ hotkey_id_to_index = BuildIdToIndex(AppKeybinds)
    /\ ui_queue = << >>
    /\ n_pushed = 0
    /\ ran = << >>
    /\ status_var = [kind |-> "Ready", name |-> "", id |-> 0]
    /\ root_exists = TRUE
    /\ poll_scheduled = TRUE
    /\ close_protocol = TRUE
    /\ ui_pc = "idle"
    /\ equipped \in {EquippedAtStart, EquippedAllFlare}
    /\ stratagem_names = NamesAfterStartup(equipped, CatalogOrder)
    /\ stratagems \in LoadedCatalogs
    /\ key_delay_ms \in LoadedDelays
    /\ act_log = << >>
    /\ icon_jobs = 0
    /\ config_changes = 0
    /\ workers = << >>
    /\ input_log = << >>

\* --------------------------------------------------------- the bridge
\* The started app with its two kinds of producers: the loop thread, on
\* hotkeys, and icon threads; the UI thread drains.
BridgeInit ==
    /\ AppStarted
    /\ stratagems = LoadedCatalog
    /\ equipped = EquippedAtStart
    /\ input_keys = "wasd"
    /\ key_delay_ms = DEFAULT_KEY_DELAY_MS

BridgeNext ==
    \/ DrainBegin
    \/ DrainStep
    \/ DrainEnd
    \/ \E fails \in BOOLEAN : IconThreadPush(fails)
    \/ \E vk \in PressableKeys : KeyPressed(vk)
    \/ \E t \in Threads : L221Hotkey(t)

BridgeSpec == BridgeInit /\ [][BridgeNext]_vars

\* ------------------------------------------------------ the synthesizer
\* The started app, activations from the app's own window, the workers and
\* changes of the settings while they run.
SynthInit ==
    /\ AppStarted
    /\ stratagems = LoadedCatalog
    /\ equipped = EquippedAtStart
    /\ input_keys \in {"wasd", "arrows"}

SynthNext ==
    \/ \E i \in Slots : LocalKey(i)
    \/ \E label \in {"WASD", "Arrows"} : on_input_keys_change(label)
    \/ \E w \in 1 .. Len(workers) : WorkerStep(w)

SynthSpec == SynthInit /\ [][SynthNext]_vars

\* ------------------------------------------------------------------
\* The whole path of a hotkey pressed again and again: the presses of the
\* first slot's key, the loop thread, the UI queue and its drain, and the
\* workers, with the one-token stratagem equipped.
\* ------------------------------------------------------------------
FirstKey == parse_key_code(AppKeybinds[1].key_code)

OverlapInit ==
    /\ AppStarted
    /\ stratagems = LoadedCatalog
    /\ equipped = EquippedAllFlare
    /\ input_keys = "wasd"
    /\ key_delay_ms = DEFAULT_KEY_DELAY_MS

OverlapNext ==
    \/ KeyPressed(FirstKey)
    \/ \E t \in Threads : L221Hotkey(t)
    \/ DrainBegin
    \/ DrainStep
    \/ DrainEnd
    \/ \E w \in 1 .. Len(workers) : WorkerStep(w)

OverlapSpec == OverlapInit /\ [][OverlapNext]_vars

\* ------------------------------------------------------------------
\* The same with the inter-key delay changed while workers run, and the
\* window closed at any moment.
\* ------------------------------------------------------------------
DelayInit ==
    /\ AppStarted
    /\ stratagems = LoadedCatalog
    /\ equipped = EquippedAtStart
    /\ input_keys \in {"wasd", "arrows"}

DelayNext ==
    \/ \E i \in Slots : LocalKey(i)
    \/ \E entry \in KeyDelayEntries : on_key_delay_change(entry)
    \/ \E w \in 1 .. Len(workers) : WorkerStep(w)
    \/ OnClose
    \/ OnCloseJoinReturns
    \/ MainReturns

DelaySpec == DelayInit /\ [][DelayNext]_vars

\* ------------------------------------------------ one activation at a time
\* The started app with any sequence for the first slot's stratagem, whose
\* hotkey the user presses, and the input setting the user changes, only
\* while nothing is under way: no message or callback waits and no worker
\* runs.  Each activation then runs under one setting from start to end.
Quiet ==
    /\ ui_pc = "idle"
    /\ ui_queue = << >>
    /\ \A t \in Threads : msgq[t] = << >>
    /\ \A w \in 1 .. Len(workers) : workers[w].pc \in {"done", "raised", "killed"}

KeyPressedWhenQuiet(vk) == Quiet /\ KeyPressed(vk)

ChangeWhenQuiet(label) == Quiet /\ on_input_keys_change(label)

SubstInit ==
    /\ AppStarted
    /\ equipped = EquippedAtStart
    /\ input_keys \in {"wasd", "arrows"}

SubstNext ==
    \/ KeyPressedWhenQuiet(FirstKey)
    \/ \E label \in {"WASD", "Arrows"} : ChangeWhenQuiet(label)
    \/ \E t \in Threads : L221Hotkey(t)
    \/ DrainBegin
    \/ DrainStep
    \/ DrainEnd
    \/ \E w \in 1 .. Len(workers) : WorkerStep(w)

SubstSpec == SubstInit /\ [][SubstNext]_vars

\* ------------------------------------------------------------------
\* The bridge with the window closed at any moment, and a UI thread that
\* keeps running: Tk's mainloop fires a due timer, process_ui_queue goes
\* on to its end, and join(timeout=1) returns.
\* ------------------------------------------------------------------
PumpInit == BridgeInit

UiThreadStep ==
    \/ DrainBegin
    \/ DrainStep
    \/ DrainEnd
    \/ OnCloseJoinReturns

PumpNext ==
    \/ UiThreadStep
    \/ \E fails \in BOOLEAN : IconThreadPush(fails)
    \/ KeyPressed(FirstKey)
    \/ \E t \in Threads : L221Hotkey(t)
    \/ \E t \in Threads : L221Quit(t)
    \/ OnClose

PumpSpec == PumpInit /\ [][PumpNext]_vars /\ WF_vars(UiThreadStep)

\* ------------------------------------------ a platform other than nt
\* The application where os.name is not "nt": keys pressed anywhere, keys
\* pressed in the window, icon threads, the drain, workers, and the close.
NonNtInit == Init /\ os_nt = FALSE /\ taken = {}

NonNtNext ==
    \/ UiRegisterHotkeys
    \/ \E vk \in PressableKeys : KeyPressed(vk)
    \/ \E i \in Slots : LocalKey(i)
    \/ \E fails \in BOOLEAN : IconThreadPush(fails)
    \/ DrainBegin
    \/ DrainStep
    \/ DrainEnd
    \/ \E w \in 1 .. Len(workers) : WStart(w)
    \/ CloseDefault
    \/ MainReturns

NonNtSpec == NonNtInit /\ [][NonNtNext]_vars

\* --------------------------------------------- the equipped list
\* What the user data file may hold as equipped_stratagems and as a preset:
\* any list of names, also empty names, names the catalog lacks, and more
\* names than there are keybinds.
PersistedNames == {"Resupply", "Flare", "Deleted", ""}
PersistedLists == UNION {[1 .. n -> PersistedNames] : n \in 0 .. NumSlots + 1}
\* The catalogs: stratagems.json with its first n entries.
Catalogs == {Slice(CatalogOrder, n) : n \in 0 .. Len(CatalogOrder)}

\* The state when __init__ has run lines 242-282.
EquipInit ==
    /\ os_nt \in BOOLEAN
    /\ hotkeys = FALSE
    /\ hotkey_map = << >>
    /\ thread = None
    /\ thread_id = None
    /\ ready = FALSE
    /\ errors = << >>
    /\ stops = [n |-> 0, idle |-> FALSE]
    /\ lpc = [t \in Threads |-> "unborn"]
    /\ l_iter = [t \in Threads |-> << >>]
    /\ has_queue = {}
    /\ msgq = [t \in Threads |-> << >>]
    /\ os_hotkeys = {}
    /\ taken = {}
    /\ os_calls = [t \in AllThreads |-> << >>]
    /\ presses = << >>
    /\ hotkey_id_to_index = << >>
    /\ ui_queue = << >>
    /\ n_pushed = 0
    /\ ran = << >>
    /\ status_var = [kind |-> "Ready", name |-> "", id |-> 0]
    /\ root_exists = TRUE
    /\ poll_scheduled = FALSE
    /\ close_protocol = FALSE
    /\ ui_pc = "l283"
    /\ \E persisted \in PersistedLists, names \in Catalogs :
          /\ equipped = StartupEquipped(persisted, names)
          /\ stratagem_names = NamesAfterStartup(persisted, names)
          /\ stratagems = [name \in SeqSet(names) |-> LoadedCatalog[name]]
    /\ input_keys = "wasd"
    /\ key_delay_ms = DEFAULT_KEY_DELAY_MS
    /\ act_log = << >>
    /\ icon_jobs = 0
    /\ config_changes = 0
    /\ workers = << >>
    /\ input_log = << >>

\* build_ui, lines 304-483, called at line 296: one card per keybind, whose
\* name label reads self.equipped[index] (line 442); a list shorter than the
\* keybinds raises IndexError there and __init__ ends with it.
build_ui ==
    /\ ui_pc = "l283"
    /\ ui_pc' = IF \A index \in 0 .. NumSlots - 1 : index + 1 \in DOMAIN equipped
                THEN "init"
                ELSE "raised"
    /\ UNCHANGED <<os_nt, mgr_vars, loop_vars, os_vars, bridge_vars, app_vars,
                   synth_vars>>

\* set_stratagem(index, name), line 505.
set_stratagem(eq, index, name) == [eq EXCEPT ![index + 1] = name]

\* _select_stratagem_from_picker, lines 648-650: a name of the picker is
\* clicked for the card of slot index.
select_stratagem_from_picker(index, name) ==
    /\ ui_pc = "idle"
    /\ root_exists
    /\ config_changes < MaxConfigChanges
    /\ config_changes' = config_changes + 1
    /\ index + 1 \in DOMAIN equipped
    /\ equipped' = set_stratagem(equipped, index, name)
    /\ UNCHANGED <<os_nt, mgr_vars, loop_vars, os_vars, bridge_vars,
                   hotkey_id_to_index, status_var, root_exists, poll_scheduled,
                   close_protocol, stratagem_names, stratagems, input_keys, key_delay_ms,
                   act_log, icon_jobs, ui_pc, synth_vars>>

\* The loop of lines 731-732 over enumerate(loadout[: len(self.equipped)]).
RECURSIVE ApplyLoadout(_, _, _)
ApplyLoadout(eq, rest, idx) ==
    IF rest = << >>
    THEN eq
    ELSE ApplyLoadout(set_stratagem(eq, idx, Head(rest)), Tail(rest), idx + 1)

\* on_preset_select, lines 723-733, for a preset whose list is loadout; an
\* empty list returns at line 728.
on_preset_select(loadout) ==
    /\ ui_pc = "idle"
    /\ root_exists
    /\ config_changes < MaxConfigChanges
    /\ config_changes' = config_changes + 1
    /\ equipped' = IF loadout = << >>
                   THEN equipped
                   ELSE ApplyLoadout(equipped, Slice(loadout, Len(equipped)), 0)
    /\ UNCHANGED <<os_nt, mgr_vars, loop_vars, os_vars, bridge_vars,
                   hotkey_id_to_index, status_var, root_exists, poll_scheduled,
                   close_protocol, stratagem_names, stratagems, input_keys, key_delay_ms,
                   act_log, icon_jobs, ui_pc, synth_vars>>

EquipNext ==
    \/ build_ui
    \/ UiRegisterHotkeys
    \/ UiStartReturns
    \/ \E index \in 0 .. NumSlots - 1, name \in SeqSet(stratagem_names) :
          select_stratagem_from_picker(index, name)
    \/ \E loadout \in PersistedLists : on_preset_select(loadout)

EquipSpec == EquipInit /\ [][EquipNext]_vars

\* ------------------------------------ HotkeyManager under any client
\* A client thread that calls start() and stop() in any order.  A call is
\* one step: its timed wait (line 202, line 208) changes nothing and may end
\* at once, and what the loop threads do while the client waits they do as
\* well after it has returned.
ClientStart ==
    /\ ui_pc = "client"
    /\ \E t \in Threads : lpc[t] = "unborn"
    /\ start(BuildHotkeyMap(AppKeybinds))
    /\ UNCHANGED <<os_nt, hotkeys, thread_id, ready, errors, stops, l_iter,
                   os_vars, bridge_vars, app_vars, ui_pc, synth_vars>>

ClientStop ==
    /\ ui_pc = "client"
    /\ stops.n < MaxStops
    /\ stop_post
    /\ UNCHANGED <<os_nt, hotkeys, hotkey_map, thread, thread_id, ready, errors,
                   loop_vars, has_queue, taken, presses, bridge_vars, app_vars,
                   ui_pc, synth_vars>>

\* The manager as HotkeyManager.__init__ leaves it (lines 170-184).
MgrInit ==
    /\ os_nt = TRUE
    /\ hotkeys = TRUE
    /\ hotkey_map = << >>
    /\ thread = None
    /\ thread_id = None
    /\ ready = FALSE
    /\ errors = << >>
    /\ stops = [n |-> 0, idle |-> FALSE]
    /\ lpc = [t \in Threads |-> "unborn"]
    /\ l_iter = [t \in Threads |-> << >>]
    /\ has_queue = {}
    /\ msgq = [t \in Threads |-> << >>]
    /\ os_hotkeys = {}
    /\ taken = {}
    /\ os_calls = [t \in AllThreads |-> << >>]
    /\ presses = << >>
    /\ hotkey_id_to_index = BuildIdToIndex(AppKeybinds)
    /\ ui_queue = << >>
    /\ n_pushed = 0
    /\ ran = << >>
    /\ status_var = [kind |-> "Ready", name |-> "", id |-> 0]
    /\ root_exists = TRUE
    /\ poll_scheduled = FALSE
    /\ close_protocol = FALSE
    /\ ui_pc = "client"
    /\ equipped = EquippedAtStart
    /\ stratagem_names = NamesAfterStartup(equipped, CatalogOrder)
    /\ stratagems = LoadedCatalog
    /\ input_keys = "wasd"
    /\ key_delay_ms = DEFAULT_KEY_DELAY_MS
    /\ act_log = << >>
    /\ icon_jobs = 0
    /\ config_changes = 0
    /\ workers = << >>
    /\ input_log = << >>

MgrNext ==
    \/ ClientStart
    \/ ClientStop
    \/ \E t \in Threads : L212(t)
    \/ \E t \in Threads : L213(t)
    \/ \E t \in Threads : L216(t)
    \/ \E t \in Threads : L219(t)
    \/ \E t \in Threads : L221Quit(t)
    \/ \E t \in Threads : L226(t)

MgrSpec == MgrInit /\ [][MgrNext]_vars

\* ====================================================== properties
Ids(calls) == [k \in 1 .. Len(calls) |-> calls[k].id]
RegisterCalls(t) == SelectSeq(os_calls[t], LAMBDA c : c.op = "RegisterHotKey")
FailedCalls(t) == SelectSeq(RegisterCalls(t), LAMBDA c : ~ c.ok)
PastRegistration(t) == lpc[t] \in {"l219", "l221", "l226", "done"}
ActiveIds(t) == {h.id : h \in {x \in os_hotkeys : x.owner = t}}

\* C1: registration is a batch.  While the loop thread registers, the ids
\* tried so far and the ids still to try make up the whole map, whatever
\* failed; once it is past the loop (ready to signal, running, or later) it
\* has called RegisterHotKey for every entry of the map, once and in order;
\* and HotkeyManager.errors holds exactly the ids whose call failed.
C1_RegistrationIsABatch ==
    \A t \in Threads :
        lpc[t] # "unborn" =>
            /\ (lpc[t] = "l216" =>
                    Ids(RegisterCalls(t)) \o DictKeys(l_iter[t]) = DictKeys(hotkey_map))
            /\ (PastRegistration(t) => Ids(RegisterCalls(t)) = DictKeys(hotkey_map))
            /\ errors = Ids(FailedCalls(t))

\* A loop thread that is running after a bind failed and a later one worked.
C1_Witness ==
    /\ lpc[1] = "l221"
    /\ \E i, j \in 1 .. Len(os_calls[1]) :
          i < j /\ ~ os_calls[1][i].ok /\ os_calls[1][j].ok

\* C2: once the registration phase is over, the active hotkeys of the loop
\* thread are the ids of the map minus the failed ones, N - |failures| of
\* them; after the unregistration phase none is active.
C2_ActiveCount ==
    \A t \in Threads :
        /\ (lpc[t] \in {"l219", "l221"} =>
                /\ ActiveIds(t) = SeqSet(DictKeys(hotkey_map)) \ SeqSet(errors)
                /\ Cardinality(ActiveIds(t)) = Len(hotkey_map) - Len(errors))
        /\ (lpc[t] = "done" => Cardinality(os_hotkeys) = 0)

\* The loop thread has ended after one bind failed and another hotkey, which
\* was active, was unregistered.
C2_Witness ==
    /\ lpc[1] = "done"
    /\ Len(errors) = 1
    /\ \E k \in 1 .. Len(os_calls[1]) :
          os_calls[1][k].op = "UnregisterHotKey" /\ os_calls[1][k].ok

\* C3: once stop() has returned (on_close went on to destroy the window),
\* the loop thread has ended and no hotkey is active.
C3_StoppedAfterStop ==
    (ui_pc = "closed" /\ hotkeys) => (lpc[thread] = "done" /\ os_hotkeys = {})

AllEnded == \A t \in Threads : lpc[t] \in {"unborn", "done"}
\* A step that is a call of stop().
ClientStopStep == stops'.n > stops.n

\* C4: stop() is idempotent.  When no loop thread is alive (none was ever
\* started, or every one started has ended after an earlier stop), a call of
\* stop() changes nothing of the manager, of the loop threads, of the message
\* queues or of the hotkey table, and makes no RegisterHotKey or
\* UnregisterHotKey call.  Whenever it is called, stop() itself leaves the
\* hotkey table and the manager's fields alone; and no loop thread asks
\* twice for the release of a hotkey it holds.
C4_StopIdempotent ==
    /\ [][(AllEnded /\ ClientStopStep) =>
              UNCHANGED <<hotkey_map, thread, thread_id, ready, errors, lpc, l_iter,
                          has_queue, msgq, os_hotkeys, os_calls>>]_vars
    /\ [][ClientStopStep =>
              UNCHANGED <<hotkey_map, thread, thread_id, ready, errors, lpc, l_iter,
                          has_queue, os_hotkeys, os_calls>>]_vars
    /\ [](\A t \in Threads : \A j, k \in 1 .. Len(os_calls[t]) :
             (/\ j < k
              /\ os_calls[t][j].op = "UnregisterHotKey"
              /\ os_calls[t][k].op = "UnregisterHotKey"
              /\ os_calls[t][j].id = os_calls[t][k].id) => ~ os_calls[t][k].ok)

\* stop() was called again after a loop thread that had bound a hotkey had
\* been stopped and had ended.
C4_Witness ==
    /\ stops.idle
    /\ \E k \in 1 .. Len(os_calls[1]) :
          os_calls[1][k].op = "UnregisterHotKey" /\ os_calls[1][k].ok

\* C5: hotkeys bound by two different start() calls are never active at the
\* same time.
C5_OneSetAtATime ==
    \A h1, h2 \in os_hotkeys : h1.owner = h2.owner

\* The slot whose key has code vk.
SlotOfVk(vk) ==
    (CHOOSE k \in 1 .. Len(AppKeybinds) : parse_key_code(AppKeybinds[k].key_code) = vk) - 1
Activations(q) == SelectSeq(q, LAMBDA f : f.kind = "activate")
\* The slots of the key presses that the OS turned into a WM_HOTKEY.
FiredSlots ==
    LET posted == SelectSeq(presses, LAMBDA p : p.posted)
    IN  [k \in 1 .. Len(posted) |-> SlotOfVk(posted[k].vk)]
\* The indexes asked for through the hotkey path, oldest first: the
\* activations run, those in the UI queue, and the messages not yet handled.
RequestedSlots(t) ==
    LET done == Activations([k \in 1 .. Len(ran) |-> ran[k].func])
        queued == Activations(ui_queue)
        pending == SelectSeq(msgq[t], LAMBDA m : m.message = WM_HOTKEY)
    IN  [k \in 1 .. Len(done) |-> done[k].index]
        \o [k \in 1 .. Len(queued) |-> queued[k].index]
        \o [k \in 1 .. Len(pending) |-> pending[k].wParam - BASE_ID]
HotkeyActivations == SelectSeq(act_log, LAMBDA a : a.via = "hotkey")

\* C6: every hotkey has the id BASE_ID + the slot of its key; the indexes
\* requested through the hotkey path are, in order, the slots of the keys
\* whose press the OS delivered; each activation run from the queue is for
\* the index of its callback; and no request is for a slot whose bind failed.
C6_IdsMatchSlots ==
    \A t \in Threads :
        lpc[t] # "unborn" =>
            /\ \A h \in os_hotkeys : h.id = BASE_ID + SlotOfVk(h.vk)
            /\ RequestedSlots(t) = FiredSlots
            /\ [k \in 1 .. Len(HotkeyActivations) |-> HotkeyActivations[k].index]
                 = [k \in 1 .. Len(ran) |-> ran[k].func.index]
            /\ \A k \in 1 .. Len(RequestedSlots(t)) :
                  /\ RequestedSlots(t)[k] \in Slots
                  /\ HotkeyIdOf(RequestedSlots(t)[k]) \notin SeqSet(errors)

\* The key of a bound slot was pressed and its activation has run; the key
\* of a slot whose bind failed was pressed while the loop ran, and nothing
\* came of it.
C6_Witness ==
    /\ Len(HotkeyActivations) = 1
    /\ lpc[1] = "l221" /\ msgq[1] = << >> /\ ui_queue = << >>
    /\ \E k \in 1 .. Len(presses) :
          /\ ~ presses[k].posted
          /\ HotkeyIdOf(SlotOfVk(presses[k].vk)) \in SeqSet(errors)

\* A step in which a loop thread takes a WM_HOTKEY message off its queue.
LoopHandlesHotkey ==
    \E t \in Threads :
        /\ lpc[t] = "l221"
        /\ msgq[t] # << >>
        /\ Head(msgq[t]).message = WM_HOTKEY
        /\ msgq'[t] = Tail(msgq[t])

\* C9: the sink only hands the event over.  A loop thread that handles a
\* hotkey puts exactly one callback on the UI queue and writes nothing else
\* of the application (status, equipped list, settings, workers, injected
\* input, the log of callbacks run); and every activate_stratagem call is
\* made by the UI thread.
C9_SinkOnlyEnqueues ==
    /\ [](\A k \in 1 .. Len(act_log) : act_log[k].by = "ui")
    /\ [][LoopHandlesHotkey =>
              /\ UNCHANGED <<app_vars, synth_vars, ran>>
              /\ Len(ui_queue') = Len(ui_queue) + 1
              /\ SubSeq(ui_queue', 1, Len(ui_queue)) = ui_queue
              /\ n_pushed' = n_pushed + 1]_vars

\* A hotkey went through the loop thread and its activation ran.
C9_Witness ==
    /\ Len(act_log) >= 1
    /\ act_log[1].via = "hotkey"
    /\ Len(ran) >= 1
    /\ ran[1].func.by = "loop"

\* A step in which process_ui_queue leaves its loop.
DrainExits == ui_pc = "drain" /\ ui_pc' = "idle"

\* C7: the callbacks run so far followed by the callbacks still queued are
\* the callbacks pushed, in the order of their push, whichever thread pushed
\* them; and a drain ends only on an empty queue, so a callback pushed during
\* the drain is run by it.
C7_BridgeFifo ==
    /\ [](LET order == [k \in 1 .. Len(ran) |-> ran[k].func.n]
                       \o [k \in 1 .. Len(ui_queue) |-> ui_queue[k].n]
          IN  order = [k \in 1 .. n_pushed |-> k])
    /\ [][DrainExits => ui_queue = << >>]_vars

\* Callbacks of the loop thread and of an icon thread were run, one of them
\* pushed while the drain that ran it was in progress.
C7_Witness ==
    /\ ui_pc = "idle"
    /\ ui_queue = << >>
    /\ Len(ran) >= 3
    /\ \E j, k \in 1 .. Len(ran) :
          /\ ran[j].func.by = "loop"
          /\ ran[k].func.by = "icon"
    /\ \E k \in 1 .. Len(ran) : ran[k].func.in_drain

\* A step in which a callback raises.
CallbackRaises ==
    /\ Len(ran') = Len(ran) + 1
    /\ ran'[Len(ran')].outcome = "raised"

\* C8: when a callback raises, process_ui_queue stays in its loop and the
\* status becomes the error text; the loop is left only on an empty queue,
\* so the callbacks behind the failing one are run; and whenever
\* process_ui_queue is not running while the window exists, the next poll is
\* scheduled.
C8_FailureDoesNotStopPump ==
    /\ [][CallbackRaises =>
              /\ ui_pc' = "drain"
              /\ status_var'.kind = "UI update error"
              /\ ui_queue' = Tail(ui_queue)]_vars
    /\ [][DrainExits => ui_queue = << >> /\ poll_scheduled']_vars
    /\ []((ui_pc = "idle" /\ root_exists) => poll_scheduled)

\* A callback raised with another queued behind it; that one ran, the drain
\* ended and the next poll is scheduled.
C8_Witness ==
    /\ ui_pc = "idle"
    /\ poll_scheduled
    /\ \E k \in 1 .. Len(ran) - 1 :
          /\ ran[k].outcome = "raised"
          /\ ran[k].behind >= 1
          /\ ran[k + 1].outcome = "ok"

\* The events injected by worker w, in the order of their injection.
EventsOf(w) == SelectSeq(input_log, LAMBDA e : e.w = w)
IsCtrl(e) == e.wScan = SCAN_CONTROL /\ e.wVk = 0
\* The positions of the tokens of a sequence that have a key code.
Resolvable(sequence) ==
    {p \in 1 .. Len(sequence) : KEY_VK(upper(sequence[p])) # None}

\* C10: the events of one activation are the modifier key-down, then for
\* each token with a key code, in the order of the sequence, the key-down
\* and right after it the key-up of the same code, then the modifier
\* key-up, which is there once the worker is done and after which the
\* activation injects nothing.
C10_EventOrder ==
    \A w \in 1 .. Len(workers) :
        \E ev \in {EventsOf(w)} :
            LET wk == workers[w]
                n == Len(ev)
                toks == Resolvable(wk.sequence)
            IN  /\ (wk.pc = "start") = (n = 0)
                /\ n >= 1 => IsCtrl(ev[1]) /\ ev[1].dwFlags = KEYEVENTF_SCANCODE
                /\ \A k \in 2 .. n :
                      IF IsCtrl(ev[k])
                      THEN /\ k = n
                           /\ k % 2 = 0
                           /\ wk.pc = "done"
                           /\ ev[k].dwFlags = KEYEVENTF_SCANCODE + KEYEVENTF_KEYUP
                      ELSE IF k % 2 = 0
                      THEN /\ ev[k].dwFlags = 0
                           /\ ev[k].tok \in toks
                           /\ ev[k].wVk \in {KEY_VK(upper(wk.sequence[ev[k].tok])),
                                             arrow_vk(upper(wk.sequence[ev[k].tok]))}
                           /\ \A j \in 2 .. k - 1 : ev[j].tok < ev[k].tok
                           /\ \A p \in toks :
                                 p < ev[k].tok => \E j \in 2 .. k - 1 : ev[j].tok = p
                      ELSE /\ ev[k].dwFlags = KEYEVENTF_KEYUP
                           /\ ~ IsCtrl(ev[k - 1])
                           /\ ev[k].wVk = ev[k - 1].wVk
                           /\ ev[k].tok = ev[k - 1].tok
                /\ wk.pc = "done" => n = 2 + 2 * Cardinality(toks) /\ IsCtrl(ev[n])
                /\ wk.pc = "l936" <=> (n >= 2 /\ n % 2 = 0 /\ ~ IsCtrl(ev[n]))

\* A worker is done with a sequence of two tokens with a key code and one
\* without, and the input setting was changed while it ran.
C10_Witness ==
    \E w \in 1 .. Len(workers) :
        /\ workers[w].pc = "done"
        /\ Len(workers[w].sequence) = 3
        /\ Len(EventsOf(w)) = 6
        /\ EventsOf(w)[2].wVk = VK_DOWN
        /\ EventsOf(w)[4].wVk = 68

\* The tokens of the key-downs of worker w, in the order of their injection.
KeyDownTokens(w) ==
    LET downs == SelectSeq(EventsOf(w), LAMBDA e : ~ IsCtrl(e) /\ e.dwFlags = 0)
    IN  [k \in 1 .. Len(downs) |-> downs[k].tok]
\* The positions of `sequence` that are in the set S, in ascending order.
PositionsIn(sequence, S) ==
    SelectSeq([p \in 1 .. Len(sequence) |-> p], LAMBDA p : p \in S)

\* C11: a token without a key code is passed over and the rest of the
\* sequence is still sent.  At every moment the keys a worker has pressed
\* are the tokens with a code among those it has gone through, in the order
\* of the sequence; a worker that is done has gone through all of them and
\* its last event is the release of the modifier.
C11_SkipsUnresolved ==
    \A w \in 1 .. Len(workers) :
        LET wk == workers[w]
            through == {p \in Resolvable(wk.sequence) :
                           p < wk.pos \/ (p = wk.pos /\ wk.pc \in {"l936", "raised"})}
        IN  /\ KeyDownTokens(w) = PositionsIn(wk.sequence, through)
            /\ wk.pc = "done" /\ os_nt =>
                  /\ wk.pos = Len(wk.sequence) + 1
                  /\ KeyDownTokens(w) = PositionsIn(wk.sequence, Resolvable(wk.sequence))
                  /\ LET last == EventsOf(w)[Len(EventsOf(w))]
                     IN  IsCtrl(last) /\ last.dwFlags = KEYEVENTF_SCANCODE + KEYEVENTF_KEYUP

\* A worker is done with a sequence whose second token has no key code: the
\* first and the third token were pressed.
C11_Witness ==
    \E w \in 1 .. Len(workers) :
        /\ workers[w].pc = "done"
        /\ 2 \notin Resolvable(workers[w].sequence)
        /\ KeyDownTokens(w) = <<1, 3>>

\* A step that is a call of activate_stratagem.
ActivationStep == Len(act_log') = Len(act_log) + 1
\* The name in the slot of the activation just made.
ActivatedName == equipped[act_log'[Len(act_log')].index + 1]

\* C12: the activation of a slot whose name is not in the catalog sets the
\* status "Unknown stratagem: <name>", starts no worker and injects nothing;
\* the UI thread goes on as before.  So the workers are as many as the
\* activations of names the catalog has.
C12_UnknownIsNoOp ==
    /\ [][(ActivationStep /\ ActivatedName \notin CatalogNames) =>
              /\ status_var' = [kind |-> "Unknown stratagem", name |-> ActivatedName,
                                id |-> 0]
              /\ UNCHANGED <<workers, input_log, ui_pc, root_exists>>]_vars
    /\ [](Len(workers) = Cardinality({k \in 1 .. Len(act_log) :
                                         equipped[act_log[k].index + 1] \in CatalogNames}))

\* The slot with the deleted name was activated: the status says so and no
\* key event was injected.
C12_Witness ==
    /\ Len(act_log) >= 1
    /\ equipped[act_log[Len(act_log)].index + 1] = "Deleted"
    /\ status_var.kind = "Unknown stratagem"
    /\ workers = << >>
    /\ input_log = << >>

\* The key events of worker w.
KeyEventsOf(w) == SelectSeq(EventsOf(w), LAMBDA e : ~ IsCtrl(e))

\* C13: an activation works from the configuration as it was when it
\* started, so within one activation every key code comes from one and the
\* same key mapping (all from KEY_VK or all from the arrow table) and every
\* sleep between two tokens has one and the same length, whatever the UI
\* thread changes meanwhile.
C13_ConfigSnapshot ==
    \A w \in 1 .. Len(workers) :
        LET keys == KeyEventsOf(w)
            seq == workers[w].sequence
        IN  /\ \/ \A k \in 1 .. Len(keys) : keys[k].wVk = KEY_VK(upper(seq[keys[k].tok]))
               \/ \A k \in 1 .. Len(keys) : keys[k].wVk = arrow_vk(upper(seq[keys[k].tok]))
            /\ \A j, k \in 1 .. Len(keys) :
                  (keys[j].dwFlags = KEYEVENTF_KEYUP /\ keys[k].dwFlags = KEYEVENTF_KEYUP)
                      => keys[j].sleep = keys[k].sleep

\* A worker that has started and not ended.
InFlight(w) == workers[w].pc \notin {"done", "raised", "killed"}

\* C14: an activation is a new worker thread and nothing else: the step
\* that activates adds one worker at its start, leaves the others as they
\* are and injects nothing itself; and a step that injects is a step of
\* neither the loop thread nor the UI thread.  While a worker is in flight,
\* the loop thread takes the next hotkey message whenever one is there, and
\* the UI thread starts, continues and ends its drain as without the worker.
C14_WorkerPerActivation ==
    /\ [][(ActivationStep /\ ActivatedName \in CatalogNames) =>
              /\ Len(workers') = Len(workers) + 1
              /\ SubSeq(workers', 1, Len(workers)) = workers
              /\ workers'[Len(workers')].pc = "start"
              /\ UNCHANGED input_log]_vars
    /\ [][input_log' # input_log =>
              UNCHANGED <<ui_pc, ui_queue, ran, act_log, lpc, msgq>>]_vars
    /\ []((\E w \in 1 .. Len(workers) : InFlight(w)) =>
             /\ \A t \in Threads :
                   (/\ lpc[t] = "l221"
                    /\ msgq[t] # << >>
                    /\ Head(msgq[t]).message = WM_HOTKEY) => ENABLED L221Hotkey(t)
             /\ (ui_pc = "idle" /\ poll_scheduled) => ENABLED DrainBegin
             /\ (ui_pc = "drain" /\ ui_queue # << >>) => ENABLED DrainStep
             /\ (ui_pc = "drain" /\ ui_queue = << >>) => ENABLED DrainEnd)

\* The first worker sleeps with its key held down while a hotkey message
\* waits for the loop thread and the UI thread is in its drain.
C14_Witness ==
    /\ Len(workers) = 1
    /\ workers[1].pc = "l936"
    /\ msgq[1] # << >>
    /\ ui_pc = "drain"

IsCtrlDown(e) == IsCtrl(e) /\ e.dwFlags = KEYEVENTF_SCANCODE
IsCtrlUp(e) == IsCtrl(e) /\ e.dwFlags = KEYEVENTF_SCANCODE + KEYEVENTF_KEYUP
IsKeyDown(e) == ~ IsCtrl(e) /\ e.dwFlags = 0
\* The control key is down, for the OS, when event k of the log is injected:
\* the last control event before it is a press.
CtrlHeldAt(k) ==
    \E j \in 1 .. k - 1 :
        /\ IsCtrlDown(input_log[j])
        /\ \A i \in j + 1 .. k - 1 : ~ IsCtrl(input_log[i])

\* C15 as stated: whenever an activation injects the key-down of a token,
\* the control key is down at the OS input level, also when activations
\* overlap.
C15_ModifierHeldAtKeyDown ==
    \A k \in 1 .. Len(input_log) : IsKeyDown(input_log[k]) => CtrlHeldAt(k)

\* C15 as amended: every key-down of an activation comes after that
\* activation's own press of the control key and before its own release;
\* and the control key is down at the OS input level at that key-down
\* unless another activation released it in between.
C15_OwnBracketing ==
    \A k \in 1 .. Len(input_log) :
        IsKeyDown(input_log[k]) =>
            /\ \A j \in 1 .. k - 1 :
                  input_log[j].w = input_log[k].w => ~ IsCtrlUp(input_log[j])
            /\ \E p \in 1 .. k - 1 :
                  /\ input_log[p].w = input_log[k].w
                  /\ IsCtrlDown(input_log[p])
                  /\ (\A i \in p + 1 .. k - 1 :
                         ~ (IsCtrlUp(input_log[i]) /\ input_log[i].w # input_log[k].w))
                        => CtrlHeldAt(k)

\* Two activations overlap: the second pressed its token key after both had
\* pressed the control key and before either released it.
C15_Witness ==
    /\ Len(workers) >= 2
    /\ \E k \in 1 .. Len(input_log) :
          /\ IsKeyDown(input_log[k])
          /\ input_log[k].w = 2
          /\ \E j \in 1 .. k - 1 : IsCtrlDown(input_log[j]) /\ input_log[j].w = 1
          /\ \A j \in 1 .. Len(input_log) : ~ IsCtrlUp(input_log[j])

\* C16, in its finite form: no activation stops between its press and its
\* release of the control key.  A worker that no longer runs (it returned,
\* it raised, or it ended with the process) and pressed the control key has
\* also released it.
C16_RunsToCompletion ==
    \A w \in 1 .. Len(workers) :
        (/\ workers[w].pc \in {"done", "raised", "killed"}
         /\ \E k \in 1 .. Len(EventsOf(w)) : IsCtrlDown(EventsOf(w)[k]))
            => \E k \in 1 .. Len(EventsOf(w)) : IsCtrlUp(EventsOf(w)[k])

\* C17: the delay a worker sleeps for (line 937) is within 10 .. 300 ms,
\* whatever was loaded and whatever was entered.
C17_DelayInRange ==
    \A k \in 1 .. Len(input_log) :
        (~ IsCtrl(input_log[k]) /\ input_log[k].dwFlags = KEYEVENTF_KEYUP)
           => input_log[k].sleep \in 10 .. 300

\* C18: the equipped list has exactly as many entries as there are
\* keybinds, so that every slot index 0 .. N-1 is within it.
C18_EquippedHasNEntries ==
    /\ Len(equipped) = NumSlots
    /\ \A index \in 0 .. NumSlots - 1 : index + 1 \in DOMAIN equipped

NotSupported == "Hotkeys are supported only on Windows."

\* C19: where os.name is not "nt", no loop thread is ever started and no
\* hotkey is ever registered, register_hotkeys leaves the status that says
\* so, no activation injects an event, and the window can be closed from
\* the idle UI thread, which then ends without an exception.
C19_DegradesWithoutHotkeys ==
    /\ [](/\ thread = None
          /\ ~ hotkeys
          /\ \A t \in Threads : lpc[t] = "unborn"
          /\ os_hotkeys = {}
          /\ \A t \in AllThreads : os_calls[t] = << >>
          /\ input_log = << >>
          /\ \A w \in 1 .. Len(workers) : workers[w].pc \in {"start", "done", "killed"}
          /\ ui_pc \in {"init", "idle", "drain", "closed", "exited"}
          /\ (ui_pc = "idle" /\ root_exists => ENABLED CloseDefault)
          /\ (ui_pc = "closed" => ~ root_exists /\ ENABLED MainReturns))
    /\ [][ui_pc = "init" /\ ui_pc' # "init" => status_var'.kind = NotSupported]_vars

\* The window was closed and the process ended after a key press outside
\* the window and an activation whose worker returned.
C19_Witness ==
    /\ ~ os_nt
    /\ ui_pc = "exited"
    /\ presses # << >>
    /\ \E w \in 1 .. Len(workers) : workers[w].pc = "done"
    /\ \E k \in 1 .. Len(act_log) : act_log[k].spawned

\* The two codes are the same, or the two tables' codes of one key.
SameKey(a, b) ==
    \/ a = b
    \/ \E key \in {"W", "A", "S", "D"} : {a, b} = {KEY_VK(key), arrow_vk(key)}

\* C21: two activations of the same sequence that ran from start to end, each
\* under one input setting, injected the same number of events, for the same
\* tokens, with the same press and release flags and the same sleeps, in the
\* same order; the events differ at most in the key code, which is the one
\* table's code or the other's for the same key.
C21_PureSubstitution ==
    \A w1 \in 1 .. Len(workers), w2 \in 1 .. Len(workers) :
        (/\ workers[w1].pc = "done"
         /\ workers[w2].pc = "done"
         /\ workers[w1].sequence = workers[w2].sequence)
            => /\ Len(EventsOf(w1)) = Len(EventsOf(w2))
               /\ workers[w1].slept = workers[w2].slept
               /\ \A k \in 1 .. Len(EventsOf(w1)) :
                     LET e1 == EventsOf(w1)[k]
                         e2 == EventsOf(w2)[k]
                     IN  /\ e1.tok = e2.tok
                         /\ e1.dwFlags = e2.dwFlags
                         /\ e1.wScan = e2.wScan
                         /\ e1.sleep = e2.sleep
                         /\ SameKey(e1.wVk, e2.wVk)

\* Two finished activations of a sequence with a token that has no code,
\* the first under one table and the second under the other.
C21_Witness ==
    /\ Len(workers) >= 2
    /\ workers[1].pc = "done"
    /\ workers[2].pc = "done"
    /\ Resolvable(workers[1].sequence) # {}
    /\ Resolvable(workers[1].sequence) # 1 .. Len(workers[1].sequence)
    /\ \E k \in 1 .. Len(EventsOf(1)) : EventsOf(1)[k].wVk # EventsOf(2)[k].wVk

\* C22 as stated: an activation that returned, all of whose tokens have a
\* key code, has slept 40 + |S| * (40 + D) ms in all.
C22_TotalSleepTime ==
    \A w \in 1 .. Len(workers) :
        (/\ workers[w].pc = "done"
         /\ Resolvable(workers[w].sequence) = 1 .. Len(workers[w].sequence))
            => workers[w].slept = 2 * PRESS_HOLD_MS
                                  + Len(workers[w].sequence)
                                    * (2 * PRESS_HOLD_MS + key_delay_ms)

\* C22 as amended: an activation that returned has slept 20 ms after the
\* press of the control key and 20 + D ms for each token with a key code,
\* 20 + n * (20 + D) ms in all; nothing is slept for a token without a code
\* or after the release of the control key.
C22_SleepTimeAsCoded ==
    \A w \in 1 .. Len(workers) :
        workers[w].pc = "done"
            => workers[w].slept = PRESS_HOLD_MS
                                  + Cardinality(Resolvable(workers[w].sequence))
                                    * (PRESS_HOLD_MS + key_delay_ms)

\* An activation of two tokens with a code returned under a delay other
\* than the default.
C22_Witness ==
    \E w \in 1 .. Len(workers) :
        /\ workers[w].pc = "done"
        /\ Len(workers[w].sequence) >= 2
        /\ Resolvable(workers[w].sequence) = 1 .. Len(workers[w].sequence)
        /\ key_delay_ms # DEFAULT_KEY_DELAY_MS
        /\ workers[w].slept = 20 + Len(workers[w].sequence) * (20 + key_delay_ms)

\* C23: whenever the ready event is set, the loop thread has stored its
\* thread id and has called RegisterHotKey for every entry of the map, and
\* the failure list holds every id whose call failed; the list does not
\* change once ready is set.
C23_ReadyAfterStartup ==
    /\ [](ready =>
            /\ thread # None
            /\ thread_id = thread
            /\ lpc[thread] \in {"l221", "l226", "done"}
            /\ Ids(RegisterCalls(thread)) = DictKeys(hotkey_map)
            /\ errors = Ids(FailedCalls(thread)))
    /\ [][ready => errors' = errors]_vars

\* Ready is set while start() still waits, after one bind failed and
\* another worked.
C23_Witness ==
    /\ ready
    /\ ui_pc = "start_wait"
    /\ Len(errors) = 1
    /\ \E h \in os_hotkeys : h.owner = thread

\* The status text names the failed bind of hotkey id.
StatusReports(id) ==
    status_var.kind = "Failed to register hotkey" /\ status_var.id = id

\* C24: once register_hotkeys has returned and the loop thread is through
\* its registration loop, the status reports every hotkey whose bind failed
\* (as long as no later message has replaced the status).
C24_FailuresReported ==
    (/\ ui_pc \notin {"init", "start_wait"}
     /\ thread # None
     /\ PastRegistration(thread)
     /\ act_log = << >>
     /\ ran = << >>)
        => \A k \in 1 .. Len(errors) : StatusReports(errors[k])

\* The lifecycle of a loop thread: Created (0), Starting (1 .. 4: thread id,
\* message queue, registration, readiness), Running (5), Stopping (6),
\* Stopped (7).
Phase(pc) ==
    CASE pc = "unborn" -> 0
      [] pc = "l212" -> 1
      [] pc = "l213" -> 2
      [] pc = "l216" -> 3
      [] pc = "l219" -> 4
      [] pc = "l221" -> 5
      [] pc = "l226" -> 6
      [] pc = "done" -> 7

\* C25: a loop thread never goes back in its lifecycle; a step that invokes
\* the sink (a callback is put on the queue) is made by a thread that is and
\* stays Running, with readiness signalled, every entry of the map tried and
\* no hotkey unregistered yet; and the step that takes the quit message off
\* the queue leaves Running for good.
C25_LifecycleForward ==
    /\ [][\A t \in Threads : Phase(lpc'[t]) >= Phase(lpc[t])]_vars
    /\ [][n_pushed' # n_pushed =>
            \E t \in Threads :
                /\ lpc[t] = "l221" /\ lpc'[t] = "l221"
                /\ msgq'[t] = Tail(msgq[t])
                /\ ready
                /\ Ids(RegisterCalls(t)) = DictKeys(hotkey_map)
                /\ \A k \in 1 .. Len(os_calls[t]) : os_calls[t][k].op = "RegisterHotKey"]_vars
    /\ [][\A t \in Threads :
            (/\ msgq[t] # << >>
             /\ Head(msgq[t]).message = WM_QUIT
             /\ msgq'[t] = Tail(msgq[t]))
                => Phase(lpc'[t]) > 5]_vars

\* The loop thread invoked the sink, then observed the quit message and
\* ended, with a hotkey message it never handled left on its queue.
C25_Witness ==
    /\ lpc[1] = "done"
    /\ n_pushed >= 1
    /\ msgq[1] # << >>

\* A step that is a call of start().
ClientStartStep == thread' # thread

\* C26: RegisterHotKey and UnregisterHotKey are called by loop threads only,
\* from their registration loop on; every active hotkey was bound by the loop
\* thread that owns it and every hotkey released was released by the loop
\* thread that had bound it.  A call of start() or stop() makes no such call
\* and leaves the hotkey table alone; stop() changes nothing but the message
\* queue it posts to.
C26_ThreadAffine ==
    /\ [](/\ os_calls[Caller] = << >>
          /\ \A t \in Threads : os_calls[t] # << >> => Phase(lpc[t]) >= 3
          /\ \A h \in os_hotkeys :
                /\ h.owner \in Threads
                /\ \E k \in 1 .. Len(os_calls[h.owner]) :
                      os_calls[h.owner][k] = [op |-> "RegisterHotKey", id |-> h.id, ok |-> TRUE]
          /\ \A t \in Threads : \A k \in 1 .. Len(os_calls[t]) :
                (os_calls[t][k].op = "UnregisterHotKey" /\ os_calls[t][k].ok)
                   => \E j \in 1 .. k - 1 :
                         os_calls[t][j] = [op |-> "RegisterHotKey",
                                           id |-> os_calls[t][k].id, ok |-> TRUE])
    /\ [][(ClientStartStep \/ ClientStopStep) => UNCHANGED <<os_hotkeys, os_calls>>]_vars
    /\ [][ClientStopStep => UNCHANGED <<lpc, l_iter, has_queue, thread, thread_id>>]_vars

\* stop() was called and the loop thread, not the caller, released a hotkey
\* it had bound, and ended.
C26_Witness ==
    /\ stops.n >= 1
    /\ lpc[1] = "done"
    /\ os_calls[Caller] = << >>
    /\ os_hotkeys = {}
    /\ \E k \in 1 .. Len(os_calls[1]) :
          os_calls[1][k].op = "UnregisterHotKey" /\ os_calls[1][k].ok

HasQuit(t) == \E k \in 1 .. Len(msgq[t]) : msgq[t][k].message = WM_QUIT

\* C27, in its finite form: a stop() that finds the thread id stored, while
\* that loop thread has not yet left its message loop, puts the quit message
\* on the thread's queue, where GetMessageW will find it (a quit that is not
\* on the queue is never observed, and the thread never ends).
C27_QuitIsObserved ==
    [][(/\ ClientStopStep
        /\ thread_id # None
        /\ Phase(lpc[thread_id]) <= 5) => HasQuit(thread_id)']_vars

\* The number of entries of `ran` in which callback n was run, and of queue
\* entries that hold it.
TimesExecuted(n) ==
    Cardinality({k \in 1 .. Len(ran) : ran[k].func.n = n /\ ran[k].outcome # "skipped"})

TimesDequeued(n) == Cardinality({k \in 1 .. Len(ran) : ran[k].func.n = n})

TimesQueued(n) == Cardinality({k \in 1 .. Len(ui_queue) : ui_queue[k].n = n})

\* A step of process_ui_queue that takes a callback off the queue.
Dequeues == Len(ran') = Len(ran) + 1

MaxPushes == MaxKeyPresses + MaxIconJobs

\* C28: no callback is lost or duplicated by the bridge.  Every callback
\* pushed is either still queued or was taken off the queue, never both and
\* never twice; the step that takes it off calls it, once, when the window
\* exists, and only then; while the window exists and the UI thread is not
\* busy the next poll is scheduled; and every callback pushed is in the end
\* executed, unless the window is destroyed first.
C28_NoCallbackLostOrDuplicated ==
    /\ [](\A n \in 1 .. n_pushed :
             /\ TimesDequeued(n) + TimesQueued(n) = 1
             /\ TimesExecuted(n) <= 1)
    /\ [][Dequeues =>
              \A n \in {Head(ui_queue).n} :
                  /\ TimesQueued(n)' = 0
                  /\ TimesDequeued(n)' = 1
                  /\ TimesExecuted(n)' = IF root_exists THEN 1 ELSE 0]_vars
    /\ [][(ui_pc = "drain" /\ ui_pc' = "idle" /\ root_exists) => poll_scheduled']_vars
    /\ \A n \in 1 .. MaxPushes :
          (n_pushed >= n) ~> (TimesExecuted(n) = 1 \/ ~ root_exists)

\* Callbacks of both producers were executed, one of them pushed while a
\* drain was running, and a callback that was pushed while the window was
\* being closed is left on the queue of the destroyed window.
C28_Witness ==
    /\ ~ root_exists
    /\ Len(ran) >= 2
    /\ \E j, k \in 1 .. Len(ran) :
          /\ ran[j].func.by = "loop" /\ ran[j].outcome = "ok"
          /\ ran[k].func.by = "icon"
    /\ ui_queue # << >>

====
